---- MODULE Spec2Model ----
(***************************************************************************)
(* pytifffloat32: the LZW codec (lzw.py) and the float32 TIFF strip codec  *)
(* (tiff.py) as state machines.  A call of compress / decompress is a      *)
(* frame (the record c / d) holding the function's local variables under   *)
(* their source names; pc is the position in the running function and kont *)
(* names the caller to return to.                                          *)
(***************************************************************************)
EXTENDS Integers, Sequences, FiniteSets, TLC

VARIABLES pc, kont, exc, c, d, p, w, r, file, tamper

vars == <<pc, kont, exc, c, d, p, w, r, file, tamper>>

\* What the functions of lzw.py leave alone.
notlzw == <<p, w, r, file, tamper>>

(* ------------------------------ lzw.py: constants ---------------------- *)
CLEAR_CODE == 256
END_OF_INFO_CODE == 257
START_BIT_WIDTH == 9
MAX_BIT_WIDTH == 12

\* The root dict of the encoder's trie (compress: currentlookup = lookup); it
\* is the only node without a 'value' key.
ROOT == -1

\* Python's None (decompress: lastbytes = None); a real lastbytes is a
\* non-empty byte string.
None == <<>>

\* 0x102: all chars + clearcode + endcode
INITIAL_LENGTH == 258

(* ------------------------------ bounds and inputs ---------------------- *)
\* Length bound of the exhaustively enumerated short compress inputs.
MaxSmallLen == 4
\* Length bound of the exhaustively enumerated raw decompress inputs.
MaxRawLen == 4
\* How many bytes past the end of its buffer the model follows a decompress
\* whose bit cursor has skipped the loop's exit test.
MaxOverrun == 3
\* Bounds of the strips the predictor pair is run on: rows, pixels per row,
\* and the length of the byte pattern that fills the strip.
MaxPredRows == 2
MaxPredWidth == 3
MaxPatLen == 3
\* Width bound of the images handed to write_tiff.
MaxImageWidth == 2

SmallAlphabet == {65, 66}

RECURSIVE SeqsUpTo(_, _)
SeqsUpTo(S, n) ==
    IF n = 0 THEN {<<>>}
    ELSE LET shorter == SeqsUpTo(S, n - 1)
         IN shorter \cup {Append(s, x) : s \in {t \in shorter : Len(t) = n - 1}, x \in S}

\* A buffer of n bytes in which every pair of neighbouring bytes is new: block
\* m (256 bytes) walks 0, s, 2s, ... mod 256 with the odd stride s = 2m + 1.
\* compress emits one code per byte of it.
RampByte(j) == (((j - 1) % 256) * (2 * ((j - 1) \div 256) + 1)) % 256
Ramp(n) == [j \in 1..n |-> RampByte(j)]

\* Ramp lengths at the code-width boundaries (254, 766 data codes) and past
\* the forced CLEAR (3838 data codes).
RampLens == {253, 254, 255, 766, 3845}

\* A byte string handed to compress: short ones are held literally, a ramp by
\* its length (its bytes are a function of the position).
Lit(b) == [kind |-> "lit", n |-> Len(b), bytes |-> b]
RampString(n) == [kind |-> "ramp", n |-> n, bytes |-> <<>>]

\* len(bytelist), bytelist[j - 1] and the whole of bytelist.
StrLen(x) == x.n
ByteOf(x, j) == IF x.kind = "lit" THEN x.bytes[j] ELSE RampByte(j)
BytesOf(x) == IF x.kind = "lit" THEN x.bytes ELSE Ramp(x.n)

LZWInputs ==
    {Lit(b) : b \in SeqsUpTo(SmallAlphabet, MaxSmallLen)}
    \cup {RampString(n) : n \in RampLens}

\* Bytes whose bits put CLEAR (1 0000 0000) and END-OF-INFORMATION
\* (1 0000 0001) at the first three 9-bit code positions of a raw buffer.
RawAlphabet == {0, 32, 64, 96, 128, 192}

RawInputs == SeqsUpTo(RawAlphabet, MaxRawLen)

(* ------------------------------ lzw.py: compress ----------------------- *)
\* The frame of compress(bytelist) after lines 79-85.  lookup holds the trie's
\* non-root edges as <<parent value, char, value>>; the 256 root edges
\* chr(i) -> {'value': i} are fixed.  i counts the bytes the for loop has
\* consumed, k the codes the packing loop has consumed; values is the join of
\* the finished hex strings values[:-1], last the bits of the number
\* values[-1] (width of them); both are dropped on return.  bytelist is the
\* argument (see Lit, RampString).  nsince and history are ghosts: the data codes
\* emitted since the last CLEAR, and the tries discarded at each CLEAR.
CompressFrame(b) ==
    [bytelist |-> b, i |-> 0,
     lookup |-> <<>>, lookuplength |-> INITIAL_LENGTH, currentlookup |-> ROOT,
     bitwidth |-> START_BIT_WIDTH, lookupmaxlength |-> 2 ^ START_BIT_WIDTH,
     codes |-> << <<CLEAR_CODE, START_BIT_WIDTH>> >>,
     k |-> 0, values |-> <<>>, last |-> <<>>, width |-> 0,
     compressed |-> <<>>,
     nsince |-> 0, history |-> <<>>]

\* Mutant: only the root dict is ever matched.
InNode_RootOnly(lookup, cur, ch) == cur = ROOT

\* c in currentlookup
InNode(lookup, cur, ch) ==
    IF cur = ROOT THEN TRUE
    ELSE \E n \in 1..Len(lookup) : lookup[n][1] = cur /\ lookup[n][2] = ch

\* currentlookup[c]['value']
Child(lookup, cur, ch) ==
    IF cur = ROOT THEN ch
    ELSE lookup[CHOOSE n \in 1..Len(lookup) : lookup[n][1] = cur /\ lookup[n][2] = ch][3]

\* Mutant: the table counts as full one entry early.
EncTableFull_Early(lookuplength, lookupmaxlength) == lookuplength = lookupmaxlength - 1

\* if lookuplength == lookupmaxlength
EncTableFull(lookuplength, lookupmaxlength) == lookuplength = lookupmaxlength

\* One iteration of "for c in bytelist" (lines 86-109).
CompressStep ==
    /\ pc = "c_loop"
    /\ c.i < StrLen(c.bytelist)
    /\ LET ch == ByteOf(c.bytelist, c.i + 1) IN
       IF InNode(c.lookup, c.currentlookup, ch)
       THEN c' = [c EXCEPT !.currentlookup = Child(c.lookup, c.currentlookup, ch),
                           !.i = @ + 1]
       ELSE LET emitted == Append(c.codes, <<c.currentlookup, c.bitwidth>>)
                added == Append(c.lookup, <<c.currentlookup, ch, c.lookuplength>>)
                length1 == c.lookuplength + 1
            IN IF ~EncTableFull(length1, c.lookupmaxlength)
               THEN c' = [c EXCEPT !.codes = emitted, !.lookup = added,
                                   !.lookuplength = length1,
                                   !.currentlookup = ch, !.i = @ + 1,
                                   !.nsince = @ + 1]
               ELSE IF c.bitwidth < MAX_BIT_WIDTH
               THEN c' = [c EXCEPT !.codes = emitted, !.lookup = added,
                                   !.lookuplength = length1,
                                   !.bitwidth = @ + 1,
                                   !.lookupmaxlength = 2 ^ (c.bitwidth + 1),
                                   !.currentlookup = ch, !.i = @ + 1,
                                   !.nsince = @ + 1]
               ELSE c' = [c EXCEPT !.codes = Append(emitted, <<CLEAR_CODE, c.bitwidth>>),
                                   !.bitwidth = START_BIT_WIDTH,
                                   !.lookupmaxlength = 2 ^ START_BIT_WIDTH,
                                   !.lookup = <<>>,
                                   !.lookuplength = INITIAL_LENGTH,
                                   !.currentlookup = ch, !.i = @ + 1,
                                   !.nsince = 0,
                                   !.history = Append(@, added)]
    /\ UNCHANGED <<pc, kont, exc, d>>
    /\ UNCHANGED notlzw

\* Mutant: the pending match is emitted, END_OF_INFO_CODE is not.
CompressEnd_NoEOI ==
    /\ pc = "c_loop"
    /\ c.i = StrLen(c.bytelist)
    /\ IF c.currentlookup = ROOT
       THEN /\ pc' = "error"
            /\ exc' = "KeyError"
            /\ UNCHANGED c
       ELSE /\ pc' = "c_pack"
            /\ c' = [c EXCEPT !.codes = Append(@, <<c.currentlookup, c.bitwidth>>),
                              !.nsince = @ + 1]
            /\ UNCHANGED exc
    /\ UNCHANGED <<kont, d>>
    /\ UNCHANGED notlzw

\* After the loop (lines 111-112): the code of the pending match, then EOI.
\* On an empty bytelist currentlookup is still the root dict, which has no
\* 'value' key: KeyError.
CompressEnd ==
    /\ pc = "c_loop"
    /\ c.i = StrLen(c.bytelist)
    /\ IF c.currentlookup = ROOT
       THEN /\ pc' = "error"
            /\ exc' = "KeyError"
            /\ UNCHANGED c
       ELSE /\ pc' = "c_pack"
            /\ c' = [c EXCEPT !.codes = Append(Append(@, <<c.currentlookup, c.bitwidth>>),
                                               <<END_OF_INFO_CODE, c.bitwidth>>),
                              !.nsince = @ + 1]
            /\ UNCHANGED exc
    /\ UNCHANGED <<kont, d>>
    /\ UNCHANGED notlzw

\* Mutant: the bits of a code are taken least significant first.
Bits_LSBFirst(code, width) == [j \in 1..width |-> (code \div 2 ^ (j - 1)) % 2]

\* The low `width` bits of `code`, most significant first: what
\* "values[-1] << bitwidth | code" appends to the number for a code below
\* 2^bitwidth.
Bits(code, width) == [j \in 1..width |-> (code \div 2 ^ (width - j)) % 2]

\* ("%%0%dx" % (width / 4)) % value: one hex digit per 4 bits.
HexOf(bits) ==
    [n \in 1..(Len(bits) \div 4) |->
        8 * bits[4 * n - 3] + 4 * bits[4 * n - 2] + 2 * bits[4 * n - 1] + bits[4 * n]]

\* binascii.a2b_hex: one byte per pair of hex digits.
a2b_hex(hex) == [n \in 1..(Len(hex) \div 2) |-> 16 * hex[2 * n - 1] + hex[2 * n]]

\* One iteration of "for code, bitwidth in codes" (lines 118-124).
PackStep ==
    /\ pc = "c_pack"
    /\ c.k < Len(c.codes)
    /\ LET code == c.codes[c.k + 1][1]
           bitwidth == c.codes[c.k + 1][2]
           shifted == c.last \o Bits(code, bitwidth)
           width1 == c.width + bitwidth
       IN IF width1 % 8 = 0
          THEN c' = [c EXCEPT !.values = @ \o HexOf(shifted), !.last = <<>>,
                              !.width = 0, !.k = @ + 1]
          ELSE c' = [c EXCEPT !.last = shifted, !.width = width1, !.k = @ + 1]
    /\ UNCHANGED <<pc, kont, exc, d>>
    /\ UNCHANGED notlzw

\* After the packing loop (lines 125-136): pad the last number with zero bits
\* to a byte boundary, convert, return.
PackEnd ==
    /\ pc = "c_pack"
    /\ c.k = Len(c.codes)
    /\ LET shiftby == 8 - (c.width % 8)
           padded == IF c.width % 8 # 0
                     THEN c.last \o [j \in 1..shiftby |-> 0]
                     ELSE c.last
           hex == IF c.width = 0 THEN c.values ELSE c.values \o HexOf(padded)
       IN c' = [c EXCEPT !.compressed = a2b_hex(hex), !.values = <<>>,
                         !.last = <<>>, !.width = 0]
    /\ pc' = "c_return"
    /\ UNCHANGED <<kont, exc, d>>
    /\ UNCHANGED notlzw

(* ------------------------------ lzw.py: decompress --------------------- *)
\* The frame of decompress(bytelist) after lines 28-33.  lookup holds the
\* entries appended after the 258 initial ones (chr(0)..chr(255), CLEAR_CODE,
\* END_OF_INFO_CODE).  nread, lastread, nclear and ndata are ghosts: the codes
\* read so far, the last one with the width it was read at, the CLEAR codes
\* read, and the data codes read since the last CLEAR.
DecompressFrame(b) ==
    [bytelist |-> b, lookup |-> <<>>, lastbytes |-> None, outputbytes |-> <<>>,
     bitoffset |-> 0, bitwidth |-> START_BIT_WIDTH,
     nread |-> 0, lastread |-> <<>>, nclear |-> 0, ndata |-> 0, eoi |-> FALSE]

\* len(lookup)
LookupLen(lookup) == INITIAL_LENGTH + Len(lookup)

\* lookup[code], for a code that is neither CLEAR nor EOI
LookupAt(lookup, code) == IF code < 256 THEN <<code>> ELSE lookup[code - INITIAL_LENGTH + 1]

\* bytelist[idx] of the zero-padded word
ByteAt(b, idx) == IF idx < Len(b) THEN b[idx + 1] ELSE 0

\* Lines 35-41.  word >> shift is computed from the word's first three bytes:
\* shift = 32 - (bitoffset % 8) - bitwidth is at least 13, so the fourth byte
\* never reaches the code.
ReadCode(b, bitoffset, bitwidth) ==
    LET startbyte == bitoffset \div 8
        word24 == ByteAt(b, startbyte) * 65536 + ByteAt(b, startbyte + 1) * 256
                  + ByteAt(b, startbyte + 2)
        shift == 32 - (bitoffset - (bitoffset \div 8) * 8) - bitwidth
        mask == 2 ^ bitwidth - 1
    IN (word24 \div 2 ^ (shift - 8)) % (mask + 1)

\* while bitoffset / 8 != len(bytelist) - 1
LoopCondition(bitoffset, bytelist) == bitoffset \div 8 # Len(bytelist) - 1

\* Mutant: the assertion only refuses an EOI that ends past the buffer.
EOIAtEnd_Lax(bitoffset, bitwidth, bytelist) ==
    (bitoffset + bitwidth - 1) \div 8 <= Len(bytelist) - 1

\* assert (bitoffset + bitwidth - 1) / 8 == len(bytelist) - 1
EOIAtEnd(bitoffset, bitwidth, bytelist) ==
    (bitoffset + bitwidth - 1) \div 8 = Len(bytelist) - 1

\* if len(lookup) == (1 << bitwidth) - 1 and bitwidth < MAX_BIT_WIDTH
DecGrows(length, bitwidth) == length = 2 ^ bitwidth - 1 /\ bitwidth < MAX_BIT_WIDTH

\* One iteration of the while loop (lines 34-69).
DecompressStep ==
    /\ pc = "d_loop"
    /\ LoopCondition(d.bitoffset, d.bytelist)
    /\ d.bitoffset \div 8 <= Len(d.bytelist) + MaxOverrun
    /\ LET code == ReadCode(d.bytelist, d.bitoffset, d.bitwidth)
           seen == [d EXCEPT !.nread = @ + 1, !.lastread = <<code, d.bitwidth>>]
       IN
       IF code = CLEAR_CODE
       THEN /\ d' = [seen EXCEPT !.bitoffset = @ + d.bitwidth,
                                 !.bitwidth = START_BIT_WIDTH,
                                 !.lastbytes = None,
                                 !.lookup = <<>>,
                                 !.nclear = @ + 1, !.ndata = 0]
            /\ UNCHANGED <<pc, exc>>
       ELSE IF code = END_OF_INFO_CODE
       THEN IF EOIAtEnd(d.bitoffset, d.bitwidth, d.bytelist)
            THEN /\ d' = [seen EXCEPT !.eoi = TRUE]
                 /\ pc' = "d_return"
                 /\ UNCHANGED exc
            ELSE /\ d' = seen
                 /\ pc' = "error"
                 /\ exc' = "AssertionError"
       ELSE IF code > LookupLen(d.lookup)
       THEN /\ d' = [seen EXCEPT !.bitoffset = @ + d.bitwidth]
            /\ pc' = "error"
            /\ exc' = "AssertionError"
       ELSE IF code = LookupLen(d.lookup) /\ d.lastbytes = None
       THEN /\ d' = [seen EXCEPT !.bitoffset = @ + d.bitwidth]
            /\ pc' = "error"
            /\ exc' = "TypeError"
       ELSE LET lookedup == IF code < LookupLen(d.lookup)
                            THEN LookupAt(d.lookup, code)
                            ELSE Append(d.lastbytes, d.lastbytes[1])
                lookup1 == IF d.lastbytes # None
                           THEN Append(d.lookup, Append(d.lastbytes, lookedup[1]))
                           ELSE d.lookup
            IN /\ d' = [seen EXCEPT !.bitoffset = @ + d.bitwidth,
                                    !.lookup = lookup1,
                                    !.lastbytes = lookedup,
                                    !.outputbytes = @ \o lookedup,
                                    !.bitwidth = IF DecGrows(LookupLen(lookup1), d.bitwidth)
                                                 THEN @ + 1 ELSE @,
                                    !.ndata = @ + 1]
               /\ UNCHANGED <<pc, exc>>
    /\ UNCHANGED <<kont, c>>
    /\ UNCHANGED notlzw

\* The while condition is false (lines 34, 70-71): return outputbytes.
DecompressExit ==
    /\ pc = "d_loop"
    /\ ~LoopCondition(d.bitoffset, d.bytelist)
    /\ pc' = "d_return"
    /\ UNCHANGED <<kont, exc, c, d>>
    /\ UNCHANGED notlzw

(* ------------------------------ tiff.py: the float predictor ----------- *)
\* A numpy uint8 array of three axes: its shape and its elements in C order.
NdArray(shape, data) == [shape |-> shape, data |-> data]

\* a[i, j, k], indices from 0
At(a, i, j, k) == a.data[(i * a.shape[2] + j) * a.shape[3] + k + 1]

\* The number of elements of an array of this shape, and the indices
\* [i, j, k] of its n-th element in C order (n from 1).
Size(shape) == shape[1] * shape[2] * shape[3]
AxisI(shape, n) == (n - 1) \div (shape[2] * shape[3])
AxisJ(shape, n) == ((n - 1) \div shape[3]) % shape[2]
AxisK(shape, n) == (n - 1) % shape[3]

\* a.reshape(shape): the same elements in C order
Reshape(a, shape) == NdArray(shape, a.data)

\* Mutant: the bytes of a sample keep their order.
ReverseAxis2_None(a) == a

\* a[:, :, ::-1]
ReverseAxis2(a) ==
    NdArray(a.shape,
            [n \in 1..Size(a.shape) |->
                At(a, AxisI(a.shape, n), AxisJ(a.shape, n),
                   a.shape[3] - 1 - AxisK(a.shape, n))])

\* a[:, ::-1, :]
ReverseAxis1(a) ==
    NdArray(a.shape,
            [n \in 1..Size(a.shape) |->
                At(a, AxisI(a.shape, n), a.shape[2] - 1 - AxisJ(a.shape, n),
                   AxisK(a.shape, n))])

\* a.transpose(0, 2, 1)
Transpose021(a) ==
    LET shape == <<a.shape[1], a.shape[3], a.shape[2]>>
    IN NdArray(shape,
               [n \in 1..Size(shape) |->
                   At(a, AxisI(shape, n), AxisK(shape, n), AxisJ(shape, n))])

\* Mutant: differences that stop at 0 instead of wrapping.
Sub8_Saturating(x, y) == IF x >= y THEN x - y ELSE 0

\* uint8 subtraction and addition wrap.
Sub8(x, y) == (x - y + 256) % 256
Add8(x, y) == (x + y) % 256

\* numpy.diff(a, axis=1)
Diff1(a) ==
    LET shape == <<a.shape[1], a.shape[2] - 1, a.shape[3]>>
    IN NdArray(shape,
               [n \in 1..Size(shape) |->
                   Sub8(At(a, AxisI(shape, n), AxisJ(shape, n) + 1, AxisK(shape, n)),
                        At(a, AxisI(shape, n), AxisJ(shape, n), AxisK(shape, n)))])

\* numpy.concatenate((a[:, 0:1, :], b), axis=1)
ConcatFirstColumn(a, b) ==
    LET shape == <<a.shape[1], b.shape[2] + 1, a.shape[3]>>
    IN NdArray(shape,
               [n \in 1..Size(shape) |->
                   IF AxisJ(shape, n) = 0
                   THEN At(a, AxisI(shape, n), 0, AxisK(shape, n))
                   ELSE At(b, AxisI(shape, n), AxisJ(shape, n) - 1, AxisK(shape, n))])

\* a.cumsum(1, dtype=numpy.uint8)
RECURSIVE CumsumAt(_, _, _, _)
CumsumAt(a, i, j, k) ==
    IF j = 0 THEN At(a, i, 0, k) ELSE Add8(CumsumAt(a, i, j - 1, k), At(a, i, j, k))

Cumsum1(a) ==
    NdArray(a.shape,
            [n \in 1..Size(a.shape) |->
                CumsumAt(a, AxisI(a.shape, n), AxisJ(a.shape, n), AxisK(a.shape, n))])

\* write_tiff, lines 213-226: stripbytes -> predictedstrip
ForwardPredictor(stripbytes, nrrows, width, nrchannels, bytespersample) ==
    LET cumsummedstrip ==
            Transpose021(ReverseAxis2(
                NdArray(<<nrrows, width * nrchannels, bytespersample>>, stripbytes)))
        reshapedcumsummedstrip ==
            Reshape(cumsummedstrip, <<nrrows, width * bytespersample, nrchannels>>)
        diffstrip == Diff1(reshapedcumsummedstrip)
    IN ConcatFirstColumn(reshapedcumsummedstrip, diffstrip).data

\* read_tiff, lines 156-166: predictedstrip -> strip
InversePredictor(predictedstrip, nrrows, width, nrchannels, bytespersample) ==
    LET cumsummedstrip ==
            Cumsum1(NdArray(<<nrrows, width * bytespersample, nrchannels>>,
                            predictedstrip))
    IN Transpose021(ReverseAxis1(
           Reshape(cumsummedstrip, <<nrrows, bytespersample, width * nrchannels>>))).data

\* The predictor pair run on its own on one strip.
NoPredictorRun ==
    [nrrows |-> 0, width |-> 0, stripbytes |-> <<>>, predictedstrip |-> <<>>,
     strip |-> <<>>]

PredictStrip ==
    /\ pc = "p_forward"
    /\ p' = [p EXCEPT !.predictedstrip =
                 ForwardPredictor(p.stripbytes, p.nrrows, p.width, 4, 4)]
    /\ pc' = "p_inverse"
    /\ UNCHANGED <<kont, exc, c, d, w, r, file, tamper>>

UnpredictStrip ==
    /\ pc = "p_inverse"
    /\ p' = [p EXCEPT !.strip =
                 InversePredictor(p.predictedstrip, p.nrrows, p.width, 4, 4)]
    /\ pc' = "p_done"
    /\ UNCHANGED <<kont, exc, c, d, w, r, file, tamper>>

\* The bytes of a buffer of n bytes that repeats the pattern pat.
Cyclic(pat, n) == [j \in 1..n |-> pat[((j - 1) % Len(pat)) + 1]]

(* ------------------------------ tiff.py: constants and tables ---------- *)
VT_BYTE == 1
VT_ASCII == 2
VT_SHORT == 3
VT_LONG == 4
VT_RATIONAL == 5

DIRECTORY_ENTRY_LENGTH == 12
TIFF_HEADER == <<73, 73, 42, 0>>
END_OF_DIRECTORY_PADDING == <<0, 0, 0, 0>>

COMPRESSION_LZW == 5
PREDICTOR_FLOAT == 3
EXTRASAMPLES_ALPHA == 1
PHOTOMETRIC_RGB == 2
SAMPLEFORMAT_FLOAT == 3

\* write_tiff's local constants
ROWSPERSTRIP == 32
FIRSTSTRIP == 8
BITSPERSAMPLE == 32

\* VALUETYPE[vt][1]: the size of one element
TypeLen(vt) ==
    CASE vt = VT_BYTE -> 1 [] vt = VT_ASCII -> 1 [] vt = VT_SHORT -> 2
      [] vt = VT_LONG -> 4 [] vt = VT_RATIONAL -> 8

\* Python values, with their type: an int, a str (its bytes), a tuple, or a
\* list (with the type of its elements).
PyInt(v) == [t |-> "int", e |-> "", v |-> v]
PyStr(s) == [t |-> "str", e |-> "", v |-> s]
PyTuple(x) == [t |-> "tuple", e |-> "", v |-> x]
PyList(e, l) == [t |-> "list", e |-> e, v |-> l]

\* a == b
PyEq(a, b) == a.t = b.t /\ a.e = b.e /\ a.v = b.v

\* One row of FIELD: (name, id, transform) or (name, id, transform,
\* acceptable values); len is the length of the row.
Field3(name, id, transform) ==
    [name |-> name, id |-> id, transform |-> transform, acceptable |-> <<>>, len |-> 3]
Field4(name, id, transform, acceptable) ==
    [name |-> name, id |-> id, transform |-> transform, acceptable |-> acceptable,
     len |-> 4]

FIELD == <<
    Field3("width", 256, "_single_param"),
    Field3("height", 257, "_single_param"),
    Field4("bitspersample", 258, "_id", <<PyList("int", <<32, 32, 32, 32>>)>>),
    Field4("compression", 259, "_single_param", <<PyInt(COMPRESSION_LZW)>>),
    Field4("photometric", 262, "_single_param", <<PyInt(PHOTOMETRIC_RGB)>>),
    Field3("stripoffsets", 273, "_id"),
    Field4("orientation", 274, "_single_param", <<PyInt(1)>>),
    Field4("samplesperpixel", 277, "_single_param", <<PyInt(4)>>),
    Field3("rowsperstrip", 278, "_single_param"),
    Field3("stripbytecounts", 279, "_id"),
    Field4("planarconfig", 284, "_single_param", <<PyInt(1)>>),
    Field4("xposition", 286, "_single_param", <<PyTuple(<<0, 1>>)>>),
    Field4("yposition", 287, "_single_param", <<PyTuple(<<0, 1>>)>>),
    Field3("datetime", 306, "_single_param"),
    Field4("predictor", 317, "_single_param", <<PyInt(PREDICTOR_FLOAT)>>),
    Field4("extrasamples", 338, "_single_param", <<PyInt(EXTRASAMPLES_ALPHA)>>),
    Field4("sampleformat", 339, "_id",
           <<PyList("int", <<SAMPLEFORMAT_FLOAT, SAMPLEFORMAT_FLOAT,
                             SAMPLEFORMAT_FLOAT, SAMPLEFORMAT_FLOAT>>)>>),
    Field3("xml", 700, "_id") >>

\* tag in __FIELD_BY_ID_MAP, and __FIELD_BY_ID_MAP[tag]
KnownTag(tag) == \E n \in 1..Len(FIELD) : FIELD[n].id = tag
FieldById(tag) == FIELD[CHOOSE n \in 1..Len(FIELD) : FIELD[n].id = tag]

\* struct.pack("<H", i), struct.pack("<I", i) and struct.pack("<i", i) for
\* values in range (the model's images and files stay far below 2^16).
PackU16(i) == <<i % 256, (i \div 256) % 256>>
PackU32(i) == <<i % 256, (i \div 256) % 256, (i \div 65536) % 256, (i \div 16777216) % 256>>

\* struct.unpack("<H", b)[0] and struct.unpack("<I", b)[0] (below 2^31), and
\* struct.unpack("<i", b)[0]
UnpackU16(b) == b[1] + 256 * b[2]
UnpackU32(b) == b[1] + 256 * b[2] + 65536 * b[3] + 16777216 * b[4]
UnpackI32(b) ==
    b[1] + 256 * b[2] + 65536 * b[3]
    + 16777216 * (IF b[4] >= 128 THEN b[4] - 256 ELSE b[4])

Min(a, b) == IF a <= b THEN a ELSE b

\* f.seek(pos); f.read(n): short at the end of the file
FileRead(f, pos, n) == SubSeq(f, pos + 1, Min(pos + n, Len(f)))

RECURSIVE Concat(_)
Concat(ss) == IF ss = <<>> THEN <<>> ELSE Head(ss) \o Concat(Tail(ss))

(* ------------------------------ tiff.py: write_tiff -------------------- *)
\* The frame of write_tiff(filename, data); data is the array's shape and its
\* bytes (tostring()).
WriteFrame(data) ==
    [data |-> data, stripoffsets |-> <<>>, stripbytecounts |-> <<>>,
     nrstrips |-> 0, stripstart |-> 0, stripdata |-> <<>>, stripnr |-> 0]

NoData == [height |-> 0, width |-> 0, nrchannels |-> 0, bytes |-> <<>>]

\* The directory dict (lines 186-205), name -> (value, type); it holds the
\* lists stripoffsets and stripbytecounts themselves, so it shows what the
\* strip loop appends to them.
WriteDirectory(f) ==
    [name \in {FIELD[n].name : n \in 1..Len(FIELD)} |->
        CASE name = "width" -> <<PyInt(f.data.width), VT_SHORT>>
          [] name = "height" -> <<PyInt(f.data.height), VT_SHORT>>
          [] name = "bitspersample" ->
               <<PyList("int", [n \in 1..f.data.nrchannels |-> BITSPERSAMPLE]), VT_SHORT>>
          [] name = "compression" -> <<PyInt(COMPRESSION_LZW), VT_SHORT>>
          [] name = "photometric" -> <<PyInt(PHOTOMETRIC_RGB), VT_SHORT>>
          [] name = "stripoffsets" -> <<PyList("int", f.stripoffsets), VT_LONG>>
          [] name = "orientation" -> <<PyInt(1), VT_SHORT>>
          [] name = "samplesperpixel" -> <<PyInt(f.data.nrchannels), VT_SHORT>>
          [] name = "rowsperstrip" -> <<PyInt(ROWSPERSTRIP), VT_SHORT>>
          [] name = "stripbytecounts" -> <<PyList("int", f.stripbytecounts), VT_LONG>>
          [] name = "planarconfig" -> <<PyInt(1), VT_SHORT>>
          [] name = "xposition" -> <<PyTuple(<<0, 1>>), VT_RATIONAL>>
          [] name = "yposition" -> <<PyTuple(<<0, 1>>), VT_RATIONAL>>
          [] name = "datetime" ->
               <<PyStr(<<115, 111, 109, 101, 32, 116, 105, 109, 101, 32,
                         108, 111, 110, 103, 32, 97, 103, 111>>), VT_ASCII>>
          [] name = "predictor" -> <<PyInt(PREDICTOR_FLOAT), VT_SHORT>>
          [] name = "extrasamples" -> <<PyInt(EXTRASAMPLES_ALPHA), VT_SHORT>>
          [] name = "sampleformat" -> <<PyInt(SAMPLEFORMAT_FLOAT), VT_SHORT>>
          [] name = "xml" -> <<PyStr(<<100, 111, 110, 116, 99, 97, 114, 101>>), VT_BYTE>>]

\* Lines 178-208.
WriteBegin ==
    /\ pc = "w_begin"
    /\ IF w.data.nrchannels # 4
       THEN /\ pc' = "error"
            /\ exc' = "AssertionError"
            /\ UNCHANGED w
       ELSE /\ pc' = "w_strip"
            /\ w' = [w EXCEPT !.nrstrips = (w.data.height + ROWSPERSTRIP - 1) \div ROWSPERSTRIP,
                              !.stripstart = FIRSTSTRIP]
            /\ UNCHANGED exc
    /\ UNCHANGED <<kont, c, d, p, r, file, tamper>>

\* One iteration of the strip loop up to the call of lzw.compress (lines
\* 209-228).
WriteStrip ==
    /\ pc = "w_strip"
    /\ w.stripnr < w.nrstrips
    /\ LET nrrows == Min(w.data.height - ROWSPERSTRIP * w.stripnr, ROWSPERSTRIP)
           bytespersample == BITSPERSAMPLE \div 8
           rowbytes == w.data.width * w.data.nrchannels * 4
           stripbytes == SubSeq(w.data.bytes, w.stripnr * ROWSPERSTRIP * rowbytes + 1,
                                Min((w.stripnr + 1) * ROWSPERSTRIP * rowbytes,
                                    Len(w.data.bytes)))
           predictedstrip == ForwardPredictor(stripbytes, nrrows, w.data.width,
                                              w.data.nrchannels, bytespersample)
       IN c' = CompressFrame(Lit(predictedstrip))
    /\ pc' = "c_loop"
    /\ kont' = "write_tiff"
    /\ UNCHANGED <<exc, d, p, w, r, file, tamper>>

\* Mutant: stripstart is not advanced past the strip.
WriteStripDone_NoAdvance ==
    /\ pc = "c_return"
    /\ kont = "write_tiff"
    /\ w' = [w EXCEPT !.stripoffsets = Append(@, w.stripstart),
                      !.stripbytecounts = Append(@, Len(c.compressed)),
                      !.stripdata = Append(@, c.compressed),
                      !.stripnr = @ + 1]
    /\ pc' = "w_strip"
    /\ UNCHANGED <<kont, exc, c, d, p, r, file, tamper>>

\* lzw.compress has returned (lines 228-232).
WriteStripDone ==
    /\ pc = "c_return"
    /\ kont = "write_tiff"
    /\ w' = [w EXCEPT !.stripoffsets = Append(@, w.stripstart),
                      !.stripbytecounts = Append(@, Len(c.compressed)),
                      !.stripstart = @ + Len(c.compressed),
                      !.stripdata = Append(@, c.compressed),
                      !.stripnr = @ + 1]
    /\ pc' = "w_strip"
    /\ UNCHANGED <<kont, exc, c, d, p, r, file, tamper>>

\* "\x00".join(values)
RECURSIVE Join0(_)
Join0(values) ==
    IF Len(values) = 0 THEN <<>>
    ELSE IF Len(values) = 1 THEN values[1]
    ELSE values[1] \o <<0>> \o Join0(Tail(values))

\* struct.pack("<" + len(values) * "H", *values), and with "I"
RECURSIVE PackInts(_, _)
PackInts(values, vt) ==
    IF values = <<>> THEN <<>>
    ELSE (IF vt = VT_SHORT THEN PackU16(Head(values)) ELSE PackU32(Head(values)))
         \o PackInts(Tail(values), vt)

\* towrite (lines 263-279)
ToWrite(value, vt) ==
    LET values == IF value.t = "list" THEN value.v ELSE <<value.v>>
    IN IF vt = VT_BYTE THEN value.v
       ELSE IF vt = VT_ASCII THEN Join0(values) \o <<0>>
       ELSE IF vt \in {VT_SHORT, VT_LONG} THEN PackInts(values, vt)
       ELSE PackInts(Concat(values), VT_LONG)

\* The towrite of the n-th row of FIELD.
FieldToWrite(directory, n) ==
    ToWrite(directory[FIELD[n].name][1], directory[FIELD[n].name][2])

\* Mutant: a value of exactly four bytes is stored out of line too.
OutOfLine_FromFour(towrite) == Len(towrite) >= 4

\* if len(towrite) > 4
OutOfLine(towrite) == Len(towrite) > 4

\* extradata after the first n rows of FIELD (lines 284-287)
RECURSIVE ExtraData(_, _)
ExtraData(directory, n) ==
    IF n = 0 THEN <<>>
    ELSE ExtraData(directory, n - 1)
         \o (IF OutOfLine(FieldToWrite(directory, n))
             THEN FieldToWrite(directory, n) ELSE <<>>)

\* What the loop writes for the n-th row of FIELD (lines 254-289).
EntryBytes(directory, n, extradatastart) ==
    LET towrite == FieldToWrite(directory, n)
        vt_type == directory[FIELD[n].name][2]
        length == Len(towrite) \div TypeLen(vt_type)
    IN PackU16(FIELD[n].id) \o PackU16(vt_type) \o PackU32(length)
       \o (IF OutOfLine(towrite)
           THEN PackU32(extradatastart + Len(ExtraData(directory, n - 1)))
           ELSE SubSeq(towrite \o <<0, 0, 0, 0>>, 1, 4))

\* Everything written to the file (lines 236-293).
FileBytes(f) ==
    LET directory == WriteDirectory(f)
        directorystart == f.stripstart
        extradatastart == directorystart + 2
                          + DIRECTORY_ENTRY_LENGTH * Cardinality(DOMAIN directory)
                          + Len(END_OF_DIRECTORY_PADDING)
    IN TIFF_HEADER \o PackU32(directorystart)
       \o Concat(f.stripdata)
       \o PackU16(Cardinality(DOMAIN directory))
       \o Concat([n \in 1..Len(FIELD) |-> EntryBytes(directory, n, extradatastart)])
       \o END_OF_DIRECTORY_PADDING
       \o ExtraData(directory, Len(FIELD))

\* After the strip loop: the file is written (lines 234-293).
WriteFile ==
    /\ pc = "w_strip"
    /\ w.stripnr = w.nrstrips
    /\ file' = FileBytes(w)
    /\ pc' = "w_return"
    /\ UNCHANGED <<kont, exc, c, d, p, w, r, tamper>>

(* ------------------------------ tiff.py: read_tiff --------------------- *)
\* The frame of read_tiff(filename).  i is the directory loop's index;
\* ncalls is a ghost, the calls of lzw.decompress made so far; image is the
\* returned array (shape and bytes) once the function has returned.
ReadFrame ==
    [directorystart |-> 0, directorylength |-> 0, i |-> 0,
     directory |-> <<>>, nrstrips |-> 0, stripnr |-> 0, imageasstring |-> <<>>,
     ncalls |-> 0, image |-> NoData]

\* Lines 94-102.
ReadHeader ==
    /\ pc = "r_header"
    /\ LET header == FileRead(file, 0, 4)
           start == FileRead(file, 4, 4)
           directorystart == UnpackU32(start)
           length == FileRead(file, directorystart, 2)
       IN IF header # TIFF_HEADER
          THEN pc' = "error" /\ exc' = "AssertionError" /\ UNCHANGED r
          ELSE IF Len(start) < 4 \/ Len(length) < 2
          THEN pc' = "error" /\ exc' = "struct.error" /\ UNCHANGED r
          ELSE /\ r' = [r EXCEPT !.directorystart = directorystart,
                                 !.directorylength = UnpackU16(length)]
               /\ pc' = "r_entry"
               /\ UNCHANGED exc
    /\ UNCHANGED <<kont, c, d, p, w, file, tamper>>

\* "".join(x[:-1]).split("\x00")
RECURSIVE Split0(_)
Split0(s) ==
    IF \A j \in 1..Len(s) : s[j] # 0 THEN <<s>>
    ELSE LET k == CHOOSE j \in 1..Len(s) : s[j] = 0 /\ \A m \in 1..(j - 1) : s[m] # 0
         IN <<SubSeq(s, 1, k - 1)>> \o Split0(SubSeq(s, k + 1, Len(s)))

\* struct.unpack("<" + length * fmt, raw) followed by VALUETYPE[valuetype][2]
Convert(valuetype, raw, length) ==
    CASE valuetype = VT_BYTE -> PyStr(raw)
      [] valuetype = VT_ASCII -> PyList("str", Split0(SubSeq(raw, 1, Len(raw) - 1)))
      [] valuetype = VT_SHORT ->
           PyList("int", [n \in 1..length |-> UnpackU16(SubSeq(raw, 2 * n - 1, 2 * n))])
      [] valuetype = VT_LONG ->
           PyList("int", [n \in 1..length |-> UnpackU32(SubSeq(raw, 4 * n - 3, 4 * n))])
      [] valuetype = VT_RATIONAL ->
           PyList("tuple", [n \in 1..length |->
                               <<UnpackI32(SubSeq(raw, 8 * n - 7, 8 * n - 4)),
                                 UnpackI32(SubSeq(raw, 8 * n - 3, 8 * n))>>])

\* _single_param(v): v[0] of a list or of a str
SingleParam(v) ==
    IF v.t = "list" THEN [t |-> v.e, e |-> "", v |-> v.v[1]] ELSE PyStr(<<v.v[1]>>)

\* Mutant: no value is refused.
Acceptable_Skipped(fielddata, value) == TRUE

\* len(fielddata) == 4 implies value in fielddata[3]
Acceptable(fielddata, value) ==
    fielddata.len = 4 =>
        \E n \in 1..Len(fielddata.acceptable) : PyEq(value, fielddata.acceptable[n])

\* One iteration of the directory loop (lines 103-122).
ReadEntry ==
    /\ pc = "r_entry"
    /\ r.i < r.directorylength
    /\ LET base == r.directorystart + 2 + DIRECTORY_ENTRY_LENGTH * r.i
           head == FileRead(file, base, 8)
           tag == UnpackU16(SubSeq(head, 1, 2))
           valuetype == UnpackU16(SubSeq(head, 3, 4))
           length == UnpackU32(SubSeq(head, 5, 8))
           typelen == TypeLen(valuetype)
           pointer == FileRead(file, base + 8, 4)
           raw == IF length * typelen > 4
                  THEN FileRead(file, UnpackU32(pointer), length * typelen)
                  ELSE FileRead(file, base + 8, length * typelen)
           values == Convert(valuetype, raw, length)
           fielddata == FieldById(tag)
           value == IF fielddata.transform = "_single_param"
                    THEN SingleParam(values) ELSE values
           Raise(e) == pc' = "error" /\ exc' = e /\ UNCHANGED r
       IN IF Len(head) < 8 THEN Raise("struct.error")
          ELSE IF valuetype \notin {VT_BYTE, VT_ASCII, VT_SHORT, VT_LONG, VT_RATIONAL}
          THEN Raise("KeyError")
          ELSE IF length * typelen > 4 /\ Len(pointer) < 4 THEN Raise("struct.error")
          ELSE IF Len(raw) < length * typelen THEN Raise("struct.error")
          ELSE IF ~KnownTag(tag) THEN Raise("AssertionError")
          ELSE IF fielddata.transform = "_single_param" /\ Len(values.v) # 1
          THEN Raise("AssertionError")
          ELSE IF ~Acceptable(fielddata, value) THEN Raise("AssertionError")
          ELSE /\ r' = [r EXCEPT !.directory =
                           [name \in DOMAIN r.directory \cup {fielddata.name} |->
                               IF name = fielddata.name THEN value ELSE r.directory[name]],
                                 !.i = @ + 1]
               /\ UNCHANGED <<pc, exc>>
    /\ UNCHANGED <<kont, c, d, p, w, file, tamper>>

\* The first failure of lines 123-129 on a directory, or "none".
CrossCheck(directory) ==
    LET Missing(name) == name \notin DOMAIN directory
        IsInt(name) == directory[name].t = "int"
        nrstrips == (directory["height"].v + directory["rowsperstrip"].v - 1)
                    \div directory["rowsperstrip"].v
    IN IF Missing("bitspersample") \/ Missing("samplesperpixel") THEN "KeyError"
       ELSE IF ~(IsInt("samplesperpixel")
                 /\ Len(directory["bitspersample"].v) = directory["samplesperpixel"].v)
       THEN "AssertionError"
       ELSE IF Missing("sampleformat") THEN "KeyError"
       ELSE IF Len(directory["sampleformat"].v) # directory["samplesperpixel"].v
       THEN "AssertionError"
       ELSE IF Missing("height") \/ Missing("rowsperstrip") THEN "KeyError"
       ELSE IF ~IsInt("height") \/ ~IsInt("rowsperstrip") THEN "TypeError"
       ELSE IF directory["rowsperstrip"].v = 0 THEN "ZeroDivisionError"
       ELSE IF Missing("stripoffsets") THEN "KeyError"
       ELSE IF Len(directory["stripoffsets"].v) # nrstrips THEN "AssertionError"
       ELSE IF Missing("stripbytecounts") THEN "KeyError"
       ELSE IF Len(directory["stripbytecounts"].v) # nrstrips THEN "AssertionError"
       ELSE IF Len(FIELD) # Cardinality(DOMAIN directory) THEN "AssertionError"
       ELSE "none"

\* After the directory loop: the cross-field assertions (lines 123-131).
ReadCheck ==
    /\ pc = "r_entry"
    /\ r.i = r.directorylength
    /\ IF CrossCheck(r.directory) # "none"
       THEN /\ pc' = "error"
            /\ exc' = CrossCheck(r.directory)
            /\ UNCHANGED r
       ELSE /\ pc' = "r_strip"
            /\ r' = [r EXCEPT !.nrstrips =
                        (r.directory["height"].v + r.directory["rowsperstrip"].v - 1)
                        \div r.directory["rowsperstrip"].v]
            /\ UNCHANGED exc
    /\ UNCHANGED <<kont, c, d, p, w, file, tamper>>

\* One iteration of the strip loop up to the call of lzw.decompress (lines
\* 133-143).
ReadStrip ==
    /\ pc = "r_strip"
    /\ r.stripnr < r.nrstrips
    /\ IF ~PyEq(r.directory["compression"], PyInt(5))
       THEN /\ pc' = "error"
            /\ exc' = "AssertionError"
            /\ UNCHANGED <<r, d>>
       ELSE /\ d' = DecompressFrame(
                      FileRead(file, r.directory["stripoffsets"].v[r.stripnr + 1],
                               r.directory["stripbytecounts"].v[r.stripnr + 1]))
            /\ r' = [r EXCEPT !.ncalls = @ + 1]
            /\ pc' = "d_loop"
            /\ UNCHANGED exc
    /\ UNCHANGED <<kont, c, p, w, file, tamper>>

RECURSIVE Sum(_)
Sum(s) == IF s = <<>> THEN 0 ELSE Head(s) + Sum(Tail(s))

\* Mutant: the byte count of a decoded strip is not checked.
StripLengthOK_Unchecked(predictedstrip, nrbytes) == TRUE

\* assert len(predictedstrip) == nrbytes
StripLengthOK(predictedstrip, nrbytes) == Len(predictedstrip) = nrbytes

\* lzw.decompress has returned (lines 143-167).  numpy's reshape raises a
\* ValueError when the number of elements does not fit the new shape.
ReadStripDone ==
    /\ pc = "d_return"
    /\ kont = "read_tiff"
    /\ LET nrrows == Min(r.directory["height"].v
                         - r.directory["rowsperstrip"].v * r.stripnr,
                         r.directory["rowsperstrip"].v)
           nrpixels == r.directory["width"].v * nrrows
           nrbytes == (nrpixels * Sum(r.directory["bitspersample"].v)) \div 8
           predictedstrip == d.outputbytes
           width == r.directory["width"].v
           nrchannels == r.directory["samplesperpixel"].v
           bytespersample == r.directory["bitspersample"].v[1] \div 8
       IN IF \/ ~StripLengthOK(predictedstrip, nrbytes)
             \/ ~PyEq(r.directory["predictor"], PyInt(3))
             \/ Cardinality({r.directory["bitspersample"].v[n] :
                                n \in 1..Len(r.directory["bitspersample"].v)}) # 1
          THEN /\ pc' = "error"
               /\ exc' = "AssertionError"
               /\ UNCHANGED r
          ELSE IF Len(predictedstrip) # nrrows * width * bytespersample * nrchannels
          THEN /\ pc' = "error"
               /\ exc' = "ValueError"
               /\ UNCHANGED r
          ELSE /\ r' = [r EXCEPT !.imageasstring =
                           @ \o InversePredictor(predictedstrip, nrrows, width,
                                                 nrchannels, bytespersample),
                                 !.stripnr = @ + 1]
               /\ pc' = "r_strip"
               /\ UNCHANGED exc
    /\ UNCHANGED <<kont, c, d, p, w, file, tamper>>

\* After the strip loop: the array is built and returned (lines 168-170).
ReadReturn ==
    /\ pc = "r_strip"
    /\ r.stripnr = r.nrstrips
    /\ LET height == r.directory["height"].v
           width == r.directory["width"].v
           samplesperpixel == r.directory["samplesperpixel"].v
       IN IF Len(r.imageasstring) # height * width * samplesperpixel * 4
          THEN /\ pc' = "error"
               /\ exc' = "ValueError"
               /\ UNCHANGED r
          ELSE /\ r' = [r EXCEPT !.image = [height |-> height, width |-> width,
                                            nrchannels |-> samplesperpixel,
                                            bytes |-> r.imageasstring]]
               /\ pc' = "r_return"
               /\ UNCHANGED exc
    /\ UNCHANGED <<kont, c, d, p, w, file, tamper>>

(* ------------------------------ files handed to read_tiff -------------- *)
\* f with the bytes at offset pos replaced.
Patch(f, pos, bytes) ==
    [j \in 1..Len(f) |-> IF j > pos /\ j <= pos + Len(bytes) THEN bytes[j - pos] ELSE f[j]]

\* Offset of the directory entry of `tag` in a file write_tiff has written.
EntryBase(f, tag) ==
    LET directorystart == UnpackU32(SubSeq(f, 5, 8))
        n == CHOOSE m \in 1..Len(FIELD) : FIELD[m].id = tag
    IN directorystart + 2 + DIRECTORY_ENTRY_LENGTH * (n - 1)

\* Offset of the value of the entry of `tag`, whose elements are typelen wide.
ValuePos(f, tag, typelen) ==
    LET base == EntryBase(f, tag)
    IN IF UnpackU32(SubSeq(f, base + 5, base + 8)) * typelen > 4
       THEN UnpackU32(SubSeq(f, base + 9, base + 12))
       ELSE base + 8

\* The file with its sampleformat entry rewritten to four SHORTs, one per
\* channel, stored at the end of the file.
WithSampleFormats(f) ==
    Patch(Patch(f, EntryBase(f, 339) + 4, PackU32(4)),
          EntryBase(f, 339) + 8, PackU32(Len(f)))
    \o PackInts(<<SAMPLEFORMAT_FLOAT, SAMPLEFORMAT_FLOAT, SAMPLEFORMAT_FLOAT,
                  SAMPLEFORMAT_FLOAT>>, VT_SHORT)

\* The 12 bytes of the directory entry of `tag`.
EntryBytesOf(f, tag) == SubSeq(f, EntryBase(f, tag) + 1, EntryBase(f, tag) + 12)

\* The file with a new directory stored at its end, made of the given entries,
\* and the header pointing to it.
WithDirectory(f, entries) ==
    Patch(f, 4, PackU32(Len(f)))
    \o PackU16(Len(entries)) \o Concat(entries) \o END_OF_DIRECTORY_PADDING

\* An edit of a written file: "none"; "set" puts `value` into the 16-bit word
\* number `index` of the value of `tag`; "shorten" takes `value` off the byte
\* count of strip `index` and "cut" sets that byte count to `value`; "append"
\* adds to the directory a copy of the entry of `tag` under the tag `value`;
\* "drop" leaves the entry of `tag` out of the directory.  formats says
\* whether sampleformat is rewritten first.
Edit(kind, formats, tag, typelen, index, value) ==
    [kind |-> kind, formats |-> formats, tag |-> tag, typelen |-> typelen,
     index |-> index, value |-> value]

NoEdit == Edit("none", FALSE, 0, 0, 0, 0)

Edits ==
    {NoEdit,
     Edit("none", TRUE, 0, 0, 0, 0),
     Edit("set", TRUE, 259, 2, 0, 1),
     Edit("set", TRUE, 317, 2, 0, 1),
     Edit("set", TRUE, 262, 2, 0, 1),
     Edit("set", TRUE, 274, 2, 0, 2),
     Edit("set", TRUE, 277, 2, 0, 3),
     Edit("set", TRUE, 284, 2, 0, 2),
     Edit("set", TRUE, 338, 2, 0, 2),
     Edit("set", TRUE, 258, 2, 1, 16),
     Edit("set", TRUE, 286, 8, 0, 1),
     Edit("set", FALSE, 317, 2, 0, 1),
     Edit("shorten", TRUE, 279, 4, 0, 1),
     Edit("shorten", TRUE, 279, 4, 0, 2),
     Edit("shorten", TRUE, 279, 4, 1, 2),
     Edit("cut", TRUE, 279, 4, 0, 1),
     Edit("cut", TRUE, 279, 4, 1, 1),
     Edit("cut", TRUE, 279, 4, 1, 0),
     Edit("append", TRUE, 256, 0, 0, 256),
     Edit("append", TRUE, 700, 0, 0, 701),
     Edit("drop", TRUE, 306, 0, 0, 0),
     Edit("drop", TRUE, 257, 0, 0, 0)}

Edited(f, e) ==
    LET g == IF e.formats THEN WithSampleFormats(f) ELSE f
        pos == ValuePos(g, e.tag, e.typelen)
    IN CASE e.kind = "none" -> g
         [] e.kind = "set" -> Patch(g, pos + 2 * e.index, PackU16(e.value))
         [] e.kind = "shorten" ->
              Patch(g, pos + 4 * e.index,
                    PackU32(UnpackU32(SubSeq(g, pos + 4 * e.index + 1,
                                             pos + 4 * e.index + 4)) - e.value))
         [] e.kind = "cut" -> Patch(g, pos + 4 * e.index, PackU32(e.value))
         [] e.kind = "append" ->
              WithDirectory(g, [n \in 1..(Len(FIELD) + 1) |->
                                  IF n <= Len(FIELD) THEN EntryBytesOf(g, FIELD[n].id)
                                  ELSE PackU16(e.value)
                                       \o SubSeq(EntryBytesOf(g, e.tag), 3, 12)])
         [] e.kind = "drop" ->
              LET kept == SelectSeq(FIELD, LAMBDA fd : fd.id # e.tag)
              IN WithDirectory(g, [n \in 1..Len(kept) |-> EntryBytesOf(g, kept[n].id)])

\* read_tiff is called on the file write_tiff has written, as it is or edited.
ReadBack ==
    /\ pc = "w_return"
    /\ \E e \in Edits :
         /\ e.kind \in {"shorten", "cut"} => e.index < w.nrstrips
         /\ tamper' = e
         /\ file' = Edited(file, e)
    /\ r' = ReadFrame
    /\ pc' = "r_header"
    /\ kont' = "read_tiff"
    /\ UNCHANGED <<exc, c, d, p, w>>

\* The image arrays handed to write_tiff.
ImagePatterns == {<<0>>, <<0, 0, 128, 63>>, <<1, 2, 3>>}
ImageHeights == {1, 2, ROWSPERSTRIP + 1}

Images ==
    {[height |-> h, width |-> wd, nrchannels |-> ch,
      bytes |-> Cyclic(pat, h * wd * ch * 4)] :
        h \in ImageHeights, wd \in 1..MaxImageWidth, ch \in {3, 4}, pat \in ImagePatterns}

InitTiff ==
    /\ pc = "w_begin"
    /\ kont = "write_tiff"
    /\ exc = "none"
    /\ c = CompressFrame(Lit(<<>>))
    /\ d = DecompressFrame(<<>>)
    /\ p = NoPredictorRun
    /\ \E data \in Images : w = WriteFrame(data)
    /\ r = ReadFrame
    /\ file = <<>>
    /\ tamper = NoEdit

NextTiff ==
    \/ WriteBegin
    \/ WriteStrip
    \/ CompressStep
    \/ CompressEnd
    \/ PackStep
    \/ PackEnd
    \/ WriteStripDone
    \/ WriteFile
    \/ ReadBack
    \/ ReadHeader
    \/ ReadEntry
    \/ ReadCheck
    \/ ReadStrip
    \/ DecompressStep
    \/ DecompressExit
    \/ ReadStripDone
    \/ ReadReturn

SpecTiff == InitTiff /\ [][NextTiff]_vars

(* ------------------------------ the predictor pair on its own -------- *)
PredAlphabet == {0, 1, 128, 255}
PredPatterns == SeqsUpTo(PredAlphabet, MaxPatLen) \ {<<>>}

InitPred ==
    /\ pc = "p_forward"
    /\ kont = "predictor"
    /\ exc = "none"
    /\ c = CompressFrame(Lit(<<>>))
    /\ d = DecompressFrame(<<>>)
    /\ \E nrrows \in 1..MaxPredRows, width \in 1..MaxPredWidth, pat \in PredPatterns :
         p = [nrrows |-> nrrows, width |-> width,
              stripbytes |-> Cyclic(pat, nrrows * width * 16),
              predictedstrip |-> <<>>, strip |-> <<>>]
    /\ w = WriteFrame(NoData)
    /\ r = ReadFrame
    /\ file = <<>>
    /\ tamper = NoEdit

NextPred ==
    \/ PredictStrip
    \/ UnpredictStrip

SpecPred == InitPred /\ [][NextPred]_vars

(* ------------------------------ lzw.py: __main__ ----------------------- *)
\* decompresseddata = decompress(compresseddata)
MainDecompress ==
    /\ pc = "c_return"
    /\ kont = "main"
    /\ d' = DecompressFrame(c.compressed)
    /\ pc' = "d_loop"
    /\ UNCHANGED <<kont, exc, c>>
    /\ UNCHANGED notlzw

\* assert data == decompresseddata
MainAssert ==
    /\ pc = "d_return"
    /\ kont = "main"
    /\ IF BytesOf(c.bytelist) = d.outputbytes
       THEN pc' = "done" /\ UNCHANGED exc
       ELSE pc' = "error" /\ exc' = "AssertionError"
    /\ UNCHANGED <<kont, c, d>>
    /\ UNCHANGED notlzw

\* data is compressed, the result decompressed and compared.
InitLZW ==
    /\ pc = "c_loop"
    /\ kont = "main"
    /\ exc = "none"
    /\ \E b \in LZWInputs : c = CompressFrame(b)
    /\ d = DecompressFrame(<<>>)
    /\ p = NoPredictorRun
    /\ w = WriteFrame(NoData)
    /\ r = ReadFrame
    /\ file = <<>>
    /\ tamper = NoEdit

NextLZW ==
    \/ CompressStep
    \/ CompressEnd
    \/ PackStep
    \/ PackEnd
    \/ MainDecompress
    \/ DecompressStep
    \/ DecompressExit
    \/ MainAssert

SpecLZW == InitLZW /\ [][NextLZW]_vars

\* decompress called directly on a raw buffer.
InitDec ==
    /\ pc = "d_loop"
    /\ kont = "raw"
    /\ exc = "none"
    /\ c = CompressFrame(Lit(<<>>))
    /\ \E b \in RawInputs : d = DecompressFrame(b)
    /\ p = NoPredictorRun
    /\ w = WriteFrame(NoData)
    /\ r = ReadFrame
    /\ file = <<>>
    /\ tamper = NoEdit

NextDec ==
    \/ DecompressStep
    \/ DecompressExit

SpecDec == InitDec /\ [][NextDec]_vars

(* ------------------------------ claims: LZW ---------------------------- *)

\* C1: for every byte buffer B, the empty one included,
\* decompress(compress(B)) returns exactly B: neither call raises, and the
\* bytes decompress returns are the bytes compress was given.
C1_RoundTrip ==
    kont = "main" =>
        /\ pc # "error"
        /\ pc \in {"d_return", "done"} => d.outputbytes = BytesOf(c.bytelist)

\* C4: while decompress processes compress(B), B non-empty, it reads every
\* code of the stream (data, CLEAR, EOI) at the bit width the encoder emitted
\* it with.
C4_SameWidth ==
    (kont = "main" /\ d.nread >= 1 /\ d.nread <= Len(c.codes)) =>
        d.lastread[2] = c.codes[d.nread][2]

\* Width of the n-th data code since the last CLEAR, as documented.
EncWidthFor(n) ==
    IF n <= 254 THEN 9 ELSE IF n <= 766 THEN 10 ELSE IF n <= 1790 THEN 11 ELSE 12

\* Width of a dictionary of `length` entries: the encoder grows at 512, 1024,
\* 2048 entries, the decoder (early = 1) at 511, 1023, 2047.
DictWidthFor(length, early) ==
    IF length < 512 - early THEN 9
    ELSE IF length < 1024 - early THEN 10
    ELSE IF length < 2048 - early THEN 11 ELSE 12

\* The finished code stream: the first code is CLEAR at 9 bits; the n-th data
\* code since the last CLEAR has the documented width; a later CLEAR comes
\* exactly after 3838 data codes, at 12 bits.
StreamWidthsOK(codes) ==
    LET clears == {j \in 1..Len(codes) : codes[j][1] = CLEAR_CODE}
        LastClear(j) == CHOOSE m \in clears : m <= j /\ \A o \in clears : o <= j => o <= m
    IN /\ codes[1] = <<CLEAR_CODE, 9>>
       /\ \A j \in 2..(Len(codes) - 1) :
            IF codes[j][1] = CLEAR_CODE
            THEN codes[j][2] = 12 /\ (j - 1) - LastClear(j - 1) = 3838
            ELSE /\ j - LastClear(j) <= 3838
                 /\ codes[j][2] = EncWidthFor(j - LastClear(j))

\* C7: in the code stream compress produces, data codes 1..254 since the last
\* CLEAR are 9 bits wide, 255..766 10 bits, 767..1790 11 bits, 1791..3838 12
\* bits (the encoder's width grows when its dictionary reaches 512, 1024, 2048
\* entries); at 4096 entries and width 12 the encoder emits CLEAR at 12 bits
\* and restarts with 258 entries at width 9.  The decoder's width grows when
\* its dictionary reaches 511, 1023, 2047 entries.
C7_WidthBoundaries ==
    /\ pc = "c_return" => StreamWidthsOK(c.codes)
    /\ pc = "c_loop" =>
         /\ c.lookuplength < 4096
         /\ c.bitwidth = DictWidthFor(c.lookuplength, 0)
         /\ c.codes[Len(c.codes)][1] = CLEAR_CODE =>
              c.lookuplength = 258 /\ c.lookup = <<>> /\ c.bitwidth = 9
    /\ pc \in {"d_loop", "d_return"} =>
         d.bitwidth = DictWidthFor(LookupLen(d.lookup), 1)

\* C7 witness: the encoder has gone through all three width growths: data
\* codes 254, 766 and 1790 went out at 9, 10 and 11 bits, their successors at
\* 10, 11 and 12 bits.  (The same input, 3845 bytes long, then runs into the
\* forced CLEAR after data code 3838.)
C7_Witness ==
    /\ pc = "c_loop"
    /\ Len(c.codes) = 1792
    /\ c.codes[255][2] = 9 /\ c.codes[256][2] = 10
    /\ c.codes[767][2] = 10 /\ c.codes[768][2] = 11
    /\ c.codes[1791][2] = 11 /\ c.codes[1792][2] = 12
    /\ c.lookuplength = 2049
    /\ c.bitwidth = 12

\* C8: decompress returns normally only after it has consumed an
\* END-OF-INFORMATION code; a buffer without one makes it end with an error.
C8_ReturnNeedsEOI == pc = "d_return" => d.eoi

\* decompress has just read END-OF-INFORMATION (bitoffset is not advanced
\* over it).
ReadEOI == d.lastread # <<>> /\ d.lastread[1] = END_OF_INFO_CODE

\* Bits of the buffer after the last bit of the END-OF-INFORMATION code read.
BitsBeyondEOI == 8 * Len(d.bytelist) - (d.bitoffset + d.lastread[2])

\* C9 (as stated): when decompress reads END-OF-INFORMATION and any bits or
\* bytes remain in the buffer beyond it, decompress ends with an error.
C9_AnyTrailingBitIsError ==
    (ReadEOI /\ BitsBeyondEOI >= 1) => pc = "error"

\* C9 (amended): when decompress reads END-OF-INFORMATION and at least one
\* whole byte remains in the buffer beyond the byte holding its last bit,
\* decompress ends with an error and returns nothing.
C9_TrailingByteIsError ==
    (ReadEOI /\ BitsBeyondEOI >= 8) => (pc = "error" /\ ~d.eoi)

\* C9 witness: END-OF-INFORMATION was read with a whole byte left after it
\* and the call has ended with the assertion error.
C9_Witness ==
    /\ ReadEOI
    /\ BitsBeyondEOI >= 8
    /\ pc = "error"
    /\ exc = "AssertionError"

\* The byte string of the encoder's entry `value` in the trie edges tbl.
RECURSIVE EncString(_, _)
EncString(tbl, value) ==
    IF value < 256 THEN <<value>>
    ELSE LET e == tbl[value - INITIAL_LENGTH + 1]
         IN Append(EncString(tbl, e[1]), e[2])

\* The encoder's trie edges between its (n-1)-th and n-th CLEAR.
EncTableOfEpoch(n) == IF n <= Len(c.history) THEN c.history[n] ELSE c.lookup

\* C10: while decompress processes compress(B), B non-empty, every entry the
\* decoder appends has the code number and the byte string of the entry the
\* encoder added under that code, the decoder having one entry fewer than
\* data codes read since the last CLEAR, and after a CLEAR the decoder is back
\* to the 258 initial entries.
C10_LockStep ==
    (kont = "main" /\ d.nclear >= 1) =>
        LET tbl == EncTableOfEpoch(d.nclear)
            n == Len(d.lookup)
        IN /\ n <= Len(tbl)
           /\ n >= 1 => /\ tbl[n][3] = LookupLen(d.lookup) - 1
                        /\ d.lookup[n] = EncString(tbl, tbl[n][3])
           /\ d.ndata >= 1 => n = d.ndata - 1
           /\ d.ndata = 0 => n = 0

(* ------------------------------ claims: predictor ---------------------- *)

\* C3: for every strip of rows x width x 4 samples of 4 bytes, the forward
\* predictor of write_tiff followed by the inverse predictor of read_tiff
\* gives back the strip byte for byte, differences and sums being modulo 256.
C3_PredictorRoundTrip ==
    pc = "p_done" => p.strip = p.stripbytes

\* C3 witness: a strip of two rows and more than one pixel per row whose
\* differences wrap (a byte smaller than its predecessor four bytes before
\* the predicted byte) has gone through both predictors.
C3_Witness ==
    /\ pc = "p_done"
    /\ p.nrrows = 2
    /\ p.width = 3
    /\ p.strip = p.stripbytes
    /\ p.predictedstrip # p.stripbytes
    /\ \E j \in 1..Len(p.predictedstrip) : p.predictedstrip[j] = 255
    /\ \E j \in 1..Len(p.stripbytes) : p.stripbytes[j] = 128

(* ------------------------------ claims: TIFF files --------------------- *)

\* write_tiff has written the file and read_tiff runs on it unedited.
ReadsWrittenFile == kont = "read_tiff" /\ tamper = NoEdit

\* C2: read_tiff applied to the file write_tiff produced for an image of
\* shape (H, W, 4), with one strip or several, does not fail and returns an
\* array of the same shape and the same bytes.
C2_ReadWriteRoundTrip ==
    ReadsWrittenFile =>
        /\ pc # "error"
        /\ pc = "r_return" => r.image = w.data

\* read_tiff has failed while reading the directory or in the cross-field
\* checks that follow it (no strip count has been computed yet).
DirectoryRejected == kont = "read_tiff" /\ pc = "error" /\ r.nrstrips = 0

\* C6: read_tiff accepts every directory entry write_tiff has written, and
\* the cross-field checks hold: reading a written file never fails in the
\* directory.
C6_WrittenDirectoryAccepted ==
    ReadsWrittenFile => ~DirectoryRejected

\* The tag and the transformed value of the entry number n (from 0) of the
\* directory of file f, as a pair.
EntryOf(f, n) ==
    LET base == UnpackU32(SubSeq(f, 5, 8)) + 2 + DIRECTORY_ENTRY_LENGTH * n
        tag == UnpackU16(SubSeq(f, base + 1, base + 2))
        valuetype == UnpackU16(SubSeq(f, base + 3, base + 4))
        length == UnpackU32(SubSeq(f, base + 5, base + 8))
        size == length * TypeLen(valuetype)
        raw == IF size > 4
               THEN FileRead(f, UnpackU32(SubSeq(f, base + 9, base + 12)), size)
               ELSE FileRead(f, base + 8, size)
        values == Convert(valuetype, raw, length)
    IN <<tag, IF KnownTag(tag) /\ FieldById(tag).transform = "_single_param"
              THEN SingleParam(values) ELSE values>>

\* The entry number n of f carries a value that is none of the acceptable
\* values its field declares.
Unacceptable(f, n) ==
    LET fielddata == FieldById(EntryOf(f, n)[1])
    IN /\ KnownTag(EntryOf(f, n)[1])
       /\ fielddata.len = 4
       /\ \A m \in 1..Len(fielddata.acceptable) :
              EntryOf(f, n)[2] # fielddata.acceptable[m]

\* The entries of f's directory.
EntryNumbers(f) ==
    0..(UnpackU16(FileRead(f, UnpackU32(SubSeq(f, 5, 8)), 2)) - 1)

\* C5: when the directory of the file read_tiff reads has an entry whose
\* value is outside its field's acceptable values, read_tiff does not get
\* past that entry: it decompresses no strip, never reaches the strip loop
\* or the return, has no image, and its only way out of the directory loop
\* is the error.
C5_UnacceptableValueRejected ==
    \A n \in (IF kont = "read_tiff" THEN EntryNumbers(file) ELSE {}) :
        Unacceptable(file, n) =>
            /\ pc \in {"r_header", "r_entry", "error"}
            /\ r.i <= n
            /\ r.ncalls = 0
            /\ r.image = NoData

\* C5 witness: read_tiff has failed with an AssertionError at the compression
\* entry, set to 1, of a file of two strips whose other entries are all
\* acceptable, having decompressed nothing.
C5_Witness ==
    /\ kont = "read_tiff"
    /\ pc = "error"
    /\ exc = "AssertionError"
    /\ tamper = Edit("set", TRUE, 259, 2, 0, 1)
    /\ EntryOf(file, 3) = <<259, PyInt(1)>>
    /\ \A n \in EntryNumbers(file) : Unacceptable(file, n) <=> n = 3
    /\ r.i = 3
    /\ r.ncalls = 0
    /\ w.nrstrips = 2

(* ------------------------------ claims: directory completeness --------- *)

\* The tag of the entry number n (from 0) of the directory of file f.
TagOf(f, n) ==
    UnpackU16(FileRead(f, UnpackU32(SubSeq(f, 5, 8)) + 2 + DIRECTORY_ENTRY_LENGTH * n, 2))

\* The directory of f holds every field of FIELD exactly once and nothing
\* else.
ExactFieldSet(f) ==
    /\ \A n \in EntryNumbers(f) : KnownTag(TagOf(f, n))
    /\ \A m \in 1..Len(FIELD) :
           Cardinality({n \in EntryNumbers(f) : TagOf(f, n) = FIELD[m].id}) = 1

\* C11: read_tiff accepts only a directory that holds exactly the required
\* fields, each once: it returns an image only for such a file, and ends with
\* an error when a field is missing, a tag is duplicated or a tag is unknown.
C11_OnlyExactDirectoryReturns ==
    (kont = "read_tiff" /\ pc = "r_return") => ExactFieldSet(file)

(* ------------------------------ claims: corrupt strips ----------------- *)

\* The bytes the first k strips of the image described by read_tiff's
\* directory hold: rows x width x channels x 4.
BytesOfStrips(k) ==
    Min(k * r.directory["rowsperstrip"].v, r.directory["height"].v)
    * r.directory["width"].v * r.directory["samplesperpixel"].v * 4

AAAA == <<65, 65, 65, 65>>

\* The values of the codes of a code list.
CodeValues(codes) == [n \in 1..Len(codes) |-> codes[n][1]]

\* C13: compress("AAAA") emits CLEAR, the literal 65, the dictionary code 258
\* of "AA", never the code 259 of "AAA", and ends with END-OF-INFORMATION
\* (the whole list being 256, 65, 258, 65, 257); decompress builds "AAA" from
\* the code 258, which it reads before it has that entry, and returns "AAAA".
C13_AAAA ==
    (kont = "main" /\ c.bytelist = Lit(AAAA)) =>
        LET all == <<CLEAR_CODE, 65, 258, 65, END_OF_INFO_CODE>>
            values == CodeValues(c.codes)
        IN /\ Len(values) <= Len(all)
           /\ values = SubSeq(all, 1, Len(values))
           /\ \A n \in 1..Len(values) : values[n] # 259
           /\ pc # "c_loop" => values = all
           /\ pc # "error"
           /\ (pc = "d_loop" /\ d.lastread = <<258, START_BIT_WIDTH>>) =>
                  /\ d.outputbytes = <<65, 65, 65>>
                  /\ d.lookup = << <<65, 65>> >>
           /\ pc \in {"d_return", "done"} => d.outputbytes = AAAA

\* C13 witness: "AAAA" has been compressed to the five codes and decompressed
\* back, the decoder having taken the code 258 when it had no entry yet.
C13_Witness ==
    /\ kont = "main"
    /\ pc = "done"
    /\ c.bytelist = Lit(AAAA)
    /\ CodeValues(c.codes) = <<CLEAR_CODE, 65, 258, 65, END_OF_INFO_CODE>>
    /\ c.compressed = <<128, 16, 96, 68, 24, 8>>
    /\ d.outputbytes = AAAA
    /\ d.lookup = << <<65, 65>>, <<65, 65, 65>> >>
    /\ d.eoi

(* ------------------------------ claims: termination of decompress ------ *)

\* The bit cursor is in a byte after the last one of the buffer: the while
\* condition bitoffset / 8 != len(bytelist) - 1 stays true from here on, since
\* bitoffset only grows, and every further word is zero padding (code 0).
CursorPastEnd == d.bitoffset \div 8 > Len(d.bytelist) - 1

\* C14: decompress terminates on every finite buffer: it is never found still
\* in its loop, having read a code, with the bit cursor past the end of the
\* buffer.
C14_CursorStaysInBuffer ==
    (kont = "raw" /\ pc = "d_loop" /\ d.nread >= 1) => ~CursorPastEnd

(* ------------------------------ claims: byte planes -------------------- *)

\* A row of the strip in plane order: the most significant bytes of all its
\* samples, then the next bytes, ... (samples are little-endian, four bytes).
\* PlaneValue(row, q) is the value at position q (from 0) of that row, in the
\* plane q \div RowSamples, for the sample q % RowSamples.
RowSamples == p.width * 4

PlaneValue(row, q) ==
    p.stripbytes[(row * RowSamples + (q % RowSamples)) * 4
                 + (3 - (q \div RowSamples)) + 1]

\* The byte the forward predictor has output for position q of a row.
Predicted(row, q) == p.predictedstrip[row * RowSamples * 4 + q + 1]

\* The modulo-256 difference of position q from the position one pixel (four
\* values) before it.
DiffFromPredecessor(row, q) == (PlaneValue(row, q) - PlaneValue(row, q - 4) + 256) % 256

PredictorHasRun == pc \in {"p_inverse", "p_done"}

\* C15: the forward predictor outputs, for every byte plane of every row, the
\* plane's first values unchanged and every other value as the modulo-256
\* difference from its predecessor in the same plane; no difference is taken
\* between two planes.
C15_DifferencesWithinPlane ==
    PredictorHasRun =>
        \A row \in 0..(p.nrrows - 1), q \in 0..(RowSamples * 4 - 1) :
            Predicted(row, q) = IF q % RowSamples < 4 THEN PlaneValue(row, q)
                                ELSE DiffFromPredecessor(row, q)

\* C15 amended: only the first pixel of a row's first (most significant)
\* plane is output unchanged; every other value of the row, the first pixel
\* of the three other planes included, is output as the modulo-256 difference
\* from the value four positions before it in the plane-ordered row.
C15_DifferencesAlongRow ==
    PredictorHasRun =>
        \A row \in 0..(p.nrrows - 1), q \in 0..(RowSamples * 4 - 1) :
            Predicted(row, q) = IF q < 4 THEN PlaneValue(row, q)
                                ELSE DiffFromPredecessor(row, q)

\* C15 witness: a strip of two rows of two pixels has been predicted, and at
\* the start of a later plane the output is a difference taken from the end of
\* the plane before, not the plane's own value.
C15_Witness ==
    /\ PredictorHasRun
    /\ p.nrrows = 2
    /\ p.width = 2
    /\ \E row \in 0..1, q \in 4..(RowSamples * 4 - 1) :
           /\ q % RowSamples < 4
           /\ Predicted(row, q) # PlaneValue(row, q)
           /\ Predicted(row, q) = DiffFromPredecessor(row, q)

(* ------------------------------ claims: layout of a written file ------- *)

\* The file is as write_tiff has written it.
FileAsWritten == pc = "w_return" \/ (kont = "read_tiff" /\ tamper = NoEdit)

\* What the file's directory gives for stripoffsets and stripbytecounts (the
\* 6th and the 10th entry), and the directory offset of the header.
FileStripOffsets == EntryOf(file, 5)[2].v
FileStripByteCounts == EntryOf(file, 9)[2].v
FileDirectoryStart == UnpackU32(SubSeq(file, 5, 8))

\* C16: a written file has ceil(H / 32) strips; stripoffsets starts at 8 and
\* each next offset is the previous one plus the previous byte count; each
\* byte count is the length of that strip's compressed bytes, which are found
\* at its offset, so that the strips lie in index order without gap or
\* overlap; the header's directory offset is the end of the last strip.
C16_StripLayout ==
    FileAsWritten =>
        LET n == Len(FileStripOffsets)
        IN /\ FileDirectoryStart
                  = 8 + Sum([i \in 1..Len(w.stripdata) |-> Len(w.stripdata[i])])
           /\ EntryOf(file, 5)[1] = 273
           /\ EntryOf(file, 9)[1] = 279
           /\ n * 32 >= w.data.height
           /\ (n - 1) * 32 < w.data.height
           /\ Len(FileStripByteCounts) = n
           /\ Len(w.stripdata) = n
           /\ FileStripOffsets[1] = 8
           /\ \A i \in 1..(n - 1) :
                  FileStripOffsets[i + 1] = FileStripOffsets[i] + FileStripByteCounts[i]
           /\ \A i \in 1..n :
                  /\ FileStripByteCounts[i] = Len(w.stripdata[i])
                  /\ FileRead(file, FileStripOffsets[i], FileStripByteCounts[i])
                         = w.stripdata[i]
           /\ FileDirectoryStart = FileStripOffsets[n] + FileStripByteCounts[n]
           /\ UnpackU16(FileRead(file, FileDirectoryStart, 2)) = Len(FIELD)

\* C16 witness: a file of two strips of different lengths has been written,
\* the second strip starting where the first one ends.
C16_Witness ==
    /\ pc = "w_return"
    /\ w.data.height = 33
    /\ Len(FileStripOffsets) = 2
    /\ FileStripOffsets[1] = 8
    /\ FileStripOffsets[2] = 8 + Len(w.stripdata[1])
    /\ Len(w.stripdata[1]) # Len(w.stripdata[2])
    /\ FileDirectoryStart = 8 + Len(w.stripdata[1]) + Len(w.stripdata[2])

(* ------------------------------ claims: inline and out-of-line values -- *)

\* The packed value write_tiff has for the n-th field, where its entry lies in
\* the file, and the four bytes of the entry's value slot.
PackedValue(n) == FieldToWrite(WriteDirectory(w), n)
EntryStart(n) == FileDirectoryStart + 2 + DIRECTORY_ENTRY_LENGTH * (n - 1)
ValueSlot(n) == FileRead(file, EntryStart(n) + 8, 4)

\* The end of the directory: its start + 2 + 12 x 18 + 4.
DirectoryEnd == FileDirectoryStart + 2 + 12 * 18 + 4

\* count x element size of the n-th entry, by which read_tiff decides to
\* follow a pointer.
StoredSize(n) ==
    UnpackU32(FileRead(file, EntryStart(n) + 4, 4))
    * TypeLen(UnpackU16(FileRead(file, EntryStart(n) + 2, 2)))

LongFields == {n \in 1..Len(FIELD) : Len(PackedValue(n)) > 4}

\* C17: in a written file every packed value of at most 4 bytes lies in its
\* entry, zero-padded to 4 bytes; every longer value lies out of line at the
\* absolute offset its entry holds, at or after the end of the directory,
\* inside the file, apart from every other out-of-line value; and count x
\* element size > 4, read_tiff's test, holds exactly for the out-of-line ones.
C17_InlineOrPointer ==
    FileAsWritten =>
        /\ \A n \in 1..Len(FIELD) :
               /\ UnpackU16(FileRead(file, EntryStart(n), 2)) = FIELD[n].id
               /\ StoredSize(n) = Len(PackedValue(n))
               /\ n \notin LongFields =>
                      ValueSlot(n) = SubSeq(PackedValue(n) \o <<0, 0, 0, 0>>, 1, 4)
               /\ n \in LongFields =>
                      /\ UnpackU32(ValueSlot(n)) >= DirectoryEnd
                      /\ UnpackU32(ValueSlot(n)) + Len(PackedValue(n)) <= Len(file)
                      /\ FileRead(file, UnpackU32(ValueSlot(n)), Len(PackedValue(n)))
                             = PackedValue(n)
        /\ \A n, m \in LongFields :
               n < m => UnpackU32(ValueSlot(n)) + Len(PackedValue(n))
                            <= UnpackU32(ValueSlot(m))
        /\ FileRead(file, DirectoryEnd - 4, 4) = END_OF_DIRECTORY_PADDING

\* C17 witness: a file of one strip has been written; its stripoffsets value,
\* of exactly 4 bytes, lies in the entry, its one-byte-longer neighbours do
\* not, width (2 bytes) is zero-padded, and bitspersample (8 bytes) is the
\* first value after the directory.
C17_Witness ==
    /\ pc = "w_return"
    /\ w.nrstrips = 1
    /\ Len(PackedValue(6)) = 4
    /\ ValueSlot(6) = PackU32(8)
    /\ ValueSlot(1) = PackU16(w.data.width) \o <<0, 0>>
    /\ 3 \in LongFields
    /\ UnpackU32(ValueSlot(3)) = DirectoryEnd
    /\ FileRead(file, DirectoryEnd, 8) = <<32, 0, 32, 0, 32, 0, 32, 0>>
    /\ Cardinality(LongFields) = 5

(* ------------------------------ claims: the code list ------------------ *)

\* The positions of END_OF_INFO_CODE in the code list.
EOIPositions == {n \in 1..Len(c.codes) : c.codes[n][1] = END_OF_INFO_CODE}

\* C18: throughout compress on a non-empty input the width is in 9..12, every
\* emitted code is below 2^width for the width it is emitted with (so at most
\* 4095), the first code is CLEAR at 9 bits, and END-OF-INFORMATION is emitted
\* once, as the last code: not inside the loop, and last once the loop is over.
C18_CodeList ==
    (kont = "main" /\ StrLen(c.bytelist) >= 1) =>
        /\ c.bitwidth \in START_BIT_WIDTH..MAX_BIT_WIDTH
        /\ \A n \in 1..Len(c.codes) :
               /\ c.codes[n][2] \in 9..12
               /\ c.codes[n][1] >= 0
               /\ c.codes[n][1] < 2 ^ c.codes[n][2]
               /\ c.codes[n][1] <= 4095
        /\ c.codes[1] = <<256, 9>>
        /\ pc = "c_loop" => EOIPositions = {}
        /\ pc # "c_loop" => EOIPositions = {Len(c.codes)}

\* C18 witness: compress has finished the code list of a 255-byte input whose
\* codes go from 9 to 10 bits: CLEAR at 9 bits first, the last data code of
\* the loop at 9 bits, the pending match at 10 bits, END-OF-INFORMATION at 10
\* bits last and only there.
C18_Witness ==
    /\ kont = "main"
    /\ pc = "c_pack"
    /\ c.k = 0
    /\ StrLen(c.bytelist) = 255
    /\ c.codes[1] = <<CLEAR_CODE, 9>>
    /\ c.codes[Len(c.codes)] = <<END_OF_INFO_CODE, 10>>
    /\ EOIPositions = {Len(c.codes)}
    /\ c.codes[Len(c.codes) - 2] = <<253, 9>>
    /\ c.codes[Len(c.codes) - 1] = <<254, 10>>
    /\ c.bitwidth = 10

(* ------------------------------ claims: bit packing -------------------- *)

\* The bit number j (from 1, most significant first) of a code of `width`
\* bits.
BitOfCode(code, width, j) == (code \div 2 ^ (width - j)) % 2

\* The bits of the codes number lo..hi of the code list, each code most
\* significant bit first, in emission order.
RECURSIVE BitsOfCodes(_, _)
BitsOfCodes(lo, hi) ==
    IF lo > hi THEN <<>>
    ELSE IF lo = hi
    THEN [j \in 1..c.codes[lo][2] |-> BitOfCode(c.codes[lo][1], c.codes[lo][2], j)]
    ELSE BitsOfCodes(lo, (lo + hi) \div 2) \o BitsOfCodes((lo + hi) \div 2 + 1, hi)

\* The byte number n (from 1) of a bit string whose last byte is filled up
\* with zero bits.
ByteOfBits(bits, n) ==
    LET Bit(m) == IF m <= Len(bits) THEN bits[m] ELSE 0
    IN 128 * Bit(8 * n - 7) + 64 * Bit(8 * n - 6) + 32 * Bit(8 * n - 5)
       + 16 * Bit(8 * n - 4) + 8 * Bit(8 * n - 3) + 4 * Bit(8 * n - 2)
       + 2 * Bit(8 * n - 1) + Bit(8 * n)

\* C19: the bytes compress returns are the bits of its (code, width) pairs,
\* most significant bit first, in emission order, followed by zero bits up to
\* the next byte boundary: ceil(sum of widths / 8) bytes.
C19_PackedMSBFirst ==
    (kont = "main" /\ pc = "c_return") =>
        LET bits == BitsOfCodes(1, Len(c.codes))
        IN /\ Len(c.compressed) = (Len(bits) + 7) \div 8
           /\ \A n \in 1..Len(c.compressed) : c.compressed[n] = ByteOfBits(bits, n)

\* C19 witness: compress has returned for a 255-byte input: 255 codes of 9
\* bits and 2 of 10 bits, 2315 bits, packed into 290 bytes of which the last
\* one carries 3 bits of the final code and 5 padding bits.
C19_Witness ==
    /\ kont = "main"
    /\ pc = "c_return"
    /\ StrLen(c.bytelist) = 255
    /\ Len(BitsOfCodes(1, Len(c.codes))) = 2315
    /\ Len(c.compressed) = 290
    /\ c.compressed[1] = 128
    /\ c.compressed[290] = 32

====
